---- MODULE Spec2Model ----
(***************************************************************************)
(* Server-driven UI (SDUI) of ya-comiste: the SDUIComponent tagged union   *)
(* (rust/crates/sdui/src/sdui_component.rs), the GraphQL resolvers         *)
(* mobile_entrypoint_sections, authorize_mobile and deauthorize_mobile     *)
(* (rust/server/src/sdui/graphql_schema.rs), and the collaborators they    *)
(* call.  Collaborators whose code is not part of the sources at hand      *)
(* (get_all_sections_for_entrypoint_key, the payload structs, crate::auth) *)
(* follow the written specification and are marked as such.                *)
(***************************************************************************)
EXTENDS Integers, Sequences, FiniteSets, TLC

VARIABLES
    db,            \* persisted section records: entrypoint key -> sequence of RawRecord
    req,           \* in-flight GraphQL requests: request id -> request frame
    pool_handles,  \* live clones of context.pool (context.pool.to_owned())
    probe,         \* one SDUIComponent deserialization: input and outcome
    sessions,      \* active session tokens
    mut,           \* in-flight GraphQL mutations: call id -> mutation frame
    log            \* number of log::error! lines written

vars == <<db, req, pool_handles, probe, sessions, mut, log>>

(***************************************************************************)
(* Bounds of the model.                                                    *)
(***************************************************************************)
MaxRecords == 3       \* persisted records over all entrypoints (Spec)
NumRequests == 2      \* concurrent requests (SpecConc)
MaxConcRecords == 2   \* persisted records of the home entrypoint (SpecConc)
NumMutations == 2     \* concurrent mutation calls (SpecAuth)
MaxLog == 2           \* log::error! lines written (SpecAuth)

(***************************************************************************)
(* Result<T, E> and Option<T>.                                             *)
(***************************************************************************)
Ok(v) == [ok |-> TRUE, value |-> v]

Err(e) == [ok |-> FALSE, error |-> e]

Some(v) == [some |-> TRUE, value |-> v]

None == [some |-> FALSE]

(***************************************************************************)
(* The component union.                                                    *)
(***************************************************************************)
\* The closed variant set of the enum.
Variants ==
    {"SDUICardComponent", "SDUIDescriptionComponent",
     "SDUIJumbotronComponent", "SDUIScrollViewHorizontalComponent"}

\* Traits derived for the enum: serde::Deserialize is, serde::Serialize is not.
DerivedTraits == {"Clone", "Debug", "serde::Deserialize", "GraphQLUnion"}

\* A discriminator outside the variant set.
UnknownTags == {"__nonexistent__"}

Tags == Variants \cup UnknownTags

\* Field names of the payload structs, in declaration order.
FieldOrder == <<"id", "title", "text", "cards">>

Fields == {FieldOrder[i] : i \in 1..Len(FieldOrder)}

Values == {"a", "b"}

Absent == "<absent>"

Malformed == "<malformed>"

FieldVals == Values \cup {Absent, Malformed}

\* The content block of an adjacently tagged record: every field name is
\* absent, present with a value of the wrong type, or present with a value.
Contents == [Fields -> FieldVals]

\* Required fields of each payload struct.
RequiredFields(variant) ==
    CASE variant = "SDUICardComponent" -> {"id", "title"}
      [] variant = "SDUIDescriptionComponent" -> {"id", "text"}
      [] variant = "SDUIJumbotronComponent" -> {"id", "title"}
      [] variant = "SDUIScrollViewHorizontalComponent" -> {"id", "title", "cards"}

DecodeError(kind, tag, field) == [kind |-> kind, tag |-> tag, field |-> field]

\* The payload decoder of one variant: every required field must be present
\* and well typed; fields the struct does not declare are ignored.
decode_payload(variant, content) ==
    LET bad == {i \in 1..Len(FieldOrder) :
                    /\ FieldOrder[i] \in RequiredFields(variant)
                    /\ content[FieldOrder[i]] \notin Values}
    IN  IF bad # {}
        THEN LET i == CHOOSE j \in bad : \A k \in bad : j <= k
             IN  Err(DecodeError(IF content[FieldOrder[i]] = Absent
                                 THEN "MissingField" ELSE "MalformedField",
                                 variant, FieldOrder[i]))
        ELSE Ok([f \in RequiredFields(variant) |-> content[f]])

\* Deserialization that falls back to the first variant on an unknown tag.
decode_default_variant(tag, content) ==
    LET v == IF tag \in Variants THEN tag ELSE "SDUICardComponent"
        p == decode_payload(v, content)
    IN  IF p.ok THEN Ok([variant |-> v, payload |-> p.value]) ELSE p

\* Deserialization by shape (untagged): the first variant whose payload
\* decoder accepts the content wins, whatever the tag says.
decode_untagged(tag, content) ==
    IF tag \notin Variants
    THEN Err(DecodeError("UnknownComponentKind", tag, ""))
    ELSE LET fits == {v \in Variants : decode_payload(v, content).ok}
         IN  IF fits = {}
             THEN decode_payload(tag, content)
             ELSE LET v == IF "SDUICardComponent" \in fits THEN "SDUICardComponent"
                           ELSE IF "SDUIDescriptionComponent" \in fits
                                THEN "SDUIDescriptionComponent"
                           ELSE CHOOSE w \in fits : TRUE
                  IN  Ok([variant |-> v, payload |-> decode_payload(v, content).value])

\* #[derive(serde::Deserialize)] with tag = "_serde_union_tag" and
\* content = "_serde_union_content": the tag alone selects the variant, the
\* content is handed to that variant's payload decoder, and the payload is
\* wrapped in the union case of the same name.
decode(tag, content) ==
    IF tag \notin Variants
    THEN Err(DecodeError("UnknownComponentKind", tag, ""))
    ELSE LET p == decode_payload(tag, content)
         IN  IF p.ok THEN Ok([variant |-> tag, payload |-> p.value]) ELSE p

(***************************************************************************)
(* Persisted records and identities.                                       *)
(***************************************************************************)
\* The three cases of crate::auth::users::User.
Users == {"AuthorizedUser", "AnonymousUser", "UnauthorizedUser"}

EntrypointKeys == {"home", "explore"}

\* Keys a client may ask for; the empty string is the invalid key.
RequestKeys == EntrypointKeys \cup {""}

RawRecord(id, tag, content, rule) ==
    [id |-> id, discriminator_tag |-> tag, content |-> content, visibility_rule |-> rule]

Content(id, title, text, cards) ==
    [f \in Fields |-> CASE f = "id" -> id [] f = "title" -> title
                        [] f = "text" -> text [] f = "cards" -> cards]

\* Sample persisted records: well-formed and malformed, public and
\* authorized-only.
CardPublic == RawRecord("s1", "SDUICardComponent", Content("a", "b", Absent, Absent), "public")

DescriptionAuthorized ==
    RawRecord("s2", "SDUIDescriptionComponent", Content("b", Absent, "a", Absent), "authorized")

\* Tagged as a description but shaped like a jumbotron: the text is missing.
DescriptionMalformed ==
    RawRecord("s3", "SDUIDescriptionComponent", Content("a", "a", Absent, Absent), "public")

UnknownAuthorized ==
    RawRecord("s4", "__nonexistent__", Content("a", "a", "a", "a"), "authorized")

JumbotronPublic ==
    RawRecord("s5", "SDUIJumbotronComponent", Content("b", "a", Absent, Malformed), "public")

RecordPool ==
    {CardPublic, DescriptionAuthorized, DescriptionMalformed, UnknownAuthorized, JumbotronPublic}

ConcPool == {CardPublic, DescriptionAuthorized, DescriptionMalformed}

SeqUpTo(S, n) == UNION {[1..k -> S] : k \in 0..n}

\* Every store holding at most n records in all.
Stores(pool, n) ==
    {s \in [EntrypointKeys -> SeqUpTo(pool, n)] : Len(s["home"]) + Len(s["explore"]) <= n}

(***************************************************************************)
(* Entrypoint resolution.                                                  *)
(***************************************************************************)
ModelError(variant, kind, key, section, tag, field) ==
    [variant |-> variant, kind |-> kind, key |-> key,
     section |-> section, tag |-> tag, field |-> field]

\* The storage collaborator: the records of the key in persisted order, or a
\* storage error when the database cannot be reached.
fetch_section_records(store, key, identity, up) ==
    IF ~up THEN Err("StorageError")
    ELSE Ok(IF key \in DOMAIN store THEN store[key] ELSE <<>>)

\* Identity-based visibility: authorized-only records are hidden from
\* anonymous and unauthorized identities.
visible(identity, record) ==
    \/ record.visibility_rule = "public"
    \/ identity = "AuthorizedUser"

\* One persisted record to one section: the component is decoded from the
\* embedded tag and content, the section identifier is attached untouched, a
\* decode failure is annotated with the section identifier.
build_section(record) ==
    LET c == decode(record.discriminator_tag, record.content)
    IN  IF c.ok
        THEN Ok([id |-> record.id, component |-> c.value])
        ELSE Err([section |-> record.id, cause |-> c.error])

\* Decoding in persisted order, failing on the first record that fails.
RECURSIVE build_sections(_)
build_sections(records) ==
    IF records = <<>> THEN Ok(<<>>)
    ELSE LET h == build_section(Head(records))
         IN  IF ~h.ok THEN h
             ELSE LET t == build_sections(Tail(records))
                  IN  IF ~t.ok THEN t ELSE Ok(<<h.value>> \o t.value)

\* resolve_sections: validate the key, fetch, filter by visibility, decode.
\* ModelError::LogicError carries InvalidKey, ModelError::DatabaseError the
\* storage failure, ModelError::SerdeError the decode failure.
get_all_sections_for_entrypoint_key(user, store, key, up) ==
    IF key = ""
    THEN Err(ModelError("LogicError", "InvalidKey", key, "", "", ""))
    ELSE LET f == fetch_section_records(store, key, user, up)
         IN  IF ~f.ok
             THEN Err(ModelError("DatabaseError", "StorageError", key, "", "", ""))
             ELSE LET b == build_sections(SelectSeq(f.value, LAMBDA r : visible(user, r)))
                  IN  IF b.ok THEN b
                      ELSE Err(ModelError("SerdeError", b.error.cause.kind, key,
                                          b.error.section, b.error.cause.tag,
                                          b.error.cause.field))

\* FieldError::from(e): the inner error becomes the message of a field error;
\* which ModelError variant carried it is not kept.
FieldError_from(e) ==
    [message |-> [kind |-> e.kind, key |-> e.key, section |-> e.section,
                  tag |-> e.tag, field |-> e.field]]

Reverse(s) == [i \in 1..Len(s) |-> s[Len(s) + 1 - i]]

\* The resolver returning the sections in reverse order.
mobile_entrypoint_sections_reversed(res) ==
    IF res.ok THEN Ok(Reverse(res.value)) ELSE Err(FieldError_from(res.error))

\* The resolver answering a decode failure with an empty list.
mobile_entrypoint_sections_best_effort(res) ==
    IF res.ok THEN Ok(res.value)
    ELSE IF res.error.variant = "SerdeError" THEN Ok(<<>>)
    ELSE Err(FieldError_from(res.error))

\* The resolver answering a logic error with an empty list.
mobile_entrypoint_sections_logic_as_empty(res) ==
    IF res.ok THEN Ok(res.value)
    ELSE IF res.error.variant = "LogicError" THEN Ok(<<>>)
    ELSE Err(FieldError_from(res.error))

\* The resolver hiding database errors from the client.
mobile_entrypoint_sections_hide_database(res) ==
    IF res.ok THEN Ok(res.value)
    ELSE IF res.error.variant = "DatabaseError" THEN Ok(<<>>)
    ELSE Err(FieldError_from(res.error))

\* The match of Query::mobile_entrypoint_sections on the outcome of
\* get_all_sections_for_entrypoint_key.
mobile_entrypoint_sections(res) ==
    IF res.ok THEN Ok(res.value)
    ELSE CASE res.error.variant = "DatabaseError" -> Err(FieldError_from(res.error))
           [] res.error.variant = "LogicError" -> Err(FieldError_from(res.error))
           [] res.error.variant = "SerdeError" -> Err(FieldError_from(res.error))

\* A resolver that resolves for an authorized user whoever asks.
context_user_elevated(frame) == "AuthorizedUser"

\* &context.user: the identity of the request's own context.
context_user(frame) == frame.user

\* context.pool.to_owned(): one more live handle on the shared pool.
pool_to_owned(handles) == handles + 1

\* A handle that outlives the call.
pool_drop_leaked(handles) == handles

\* The handle goes out of scope when the resolver returns.
pool_drop(handles) == handles - 1

Pending == [ok |-> FALSE, error |-> [pending |-> TRUE]]

IdleFrame ==
    [pc |-> "idle", key |-> "", user |-> "AnonymousUser", storage_ok |-> TRUE,
     resolved |-> Pending, response |-> Pending]

\* A request arrives: the resolver clones the pool handle, calls
\* get_all_sections_for_entrypoint_key and suspends at the storage fetch.
Call(r) ==
    /\ req[r].pc = "idle"
    /\ \E key \in RequestKeys, user \in Users :
          req' = [req EXCEPT ![r] = [IdleFrame EXCEPT !.pc = "awaiting",
                                                      !.key = key, !.user = user]]
    /\ pool_handles' = pool_to_owned(pool_handles)
    /\ UNCHANGED <<db, probe, sessions, mut, log>>

\* The await resumes with the storage outcome; the resolver matches on the
\* result and returns, dropping its handle.
Complete(r) ==
    /\ req[r].pc = "awaiting"
    /\ \E up \in BOOLEAN :
          LET res == get_all_sections_for_entrypoint_key(
                         context_user(req[r]), db, req[r].key, up)
          IN  req' = [req EXCEPT ![r] = [@ EXCEPT !.pc = "done", !.storage_ok = up,
                                                  !.resolved = res,
                                                  !.response = mobile_entrypoint_sections(res)]]
    /\ pool_handles' = pool_drop(pool_handles)
    /\ UNCHANGED <<db, probe, sessions, mut, log>>

\* The response is sent and the sections are discarded.
Discard(r) ==
    /\ req[r].pc = "done"
    /\ req' = [req EXCEPT ![r] = IdleFrame]
    /\ UNCHANGED <<db, pool_handles, probe, sessions, mut, log>>

(***************************************************************************)
(* Component deserialization in isolation.                                 *)
(***************************************************************************)
\* serde deserializes one adjacently tagged value.
Deserialize ==
    /\ probe.pc = "input"
    /\ probe' = [probe EXCEPT !.pc = "decoded", !.out = decode(probe.tag, probe.content)]
    /\ UNCHANGED <<db, req, pool_handles, sessions, mut, log>>

(***************************************************************************)
(* Authorization.                                                          *)
(***************************************************************************)
GoogleTokens == {"jwt:alice", "jwt:bob", "jwt:invalid"}

Subject(google_id_token) ==
    CASE google_id_token = "jwt:alice" -> "alice"
      [] google_id_token = "jwt:bob" -> "bob"

SessionTokens == {"session:alice", "session:bob"}

SessionFor(subject) == IF subject = "alice" THEN "session:alice" ELSE "session:bob"

\* crate::auth::authorize: a valid token is authorized, or registered and
\* authorized; an invalid token is rejected; the database may fail.
authorize(google_id_token, up) ==
    IF google_id_token = "jwt:invalid" THEN Err("InvalidToken")
    ELSE IF ~up THEN Err("DatabaseError")
    ELSE Ok(SessionFor(Subject(google_id_token)))

\* crate::auth::deauthorize: removes the session if it is active.
deauthorize(session_token, active, up) ==
    IF session_token \in active /\ up THEN Ok(session_token) ELSE Err("NoSession")

\* The error arm answering with success: true.
authorize_mobile_always_success(session_token) ==
    IF session_token.ok
    THEN Ok([success |-> TRUE, session_token |-> Some(session_token.value)])
    ELSE Ok([success |-> TRUE, session_token |-> None])

\* The match of Mutation::authorize_mobile on the outcome of authorize.
authorize_mobile(session_token) ==
    IF session_token.ok
    THEN Ok([success |-> TRUE, session_token |-> Some(session_token.value)])
    ELSE Ok([success |-> FALSE, session_token |-> None])

\* The match of Mutation::deauthorize_mobile on the outcome of deauthorize.
deauthorize_mobile(outcome) ==
    IF outcome.ok THEN [success |-> TRUE] ELSE [success |-> FALSE]

IdleMutation ==
    [pc |-> "idle", op |-> "none", arg |-> "", outcome |-> Pending, response |-> Pending]

\* authorize_mobile is called: the resolver clones the pool handle, calls
\* crate::auth::authorize and suspends.
AuthorizeCall(m) ==
    /\ mut[m].pc = "idle"
    /\ \E google_id_token \in GoogleTokens :
          mut' = [mut EXCEPT ![m] = [IdleMutation EXCEPT !.pc = "awaiting",
                                                         !.op = "authorize_mobile",
                                                         !.arg = google_id_token]]
    /\ pool_handles' = pool_to_owned(pool_handles)
    /\ UNCHANGED <<db, req, probe, sessions, log>>

\* crate::auth::authorize answers: the resolver matches on the answer, logs
\* an error, returns the payload and drops its handle.  The log holds at
\* most MaxLog lines: a failure that would write one more is not followed.
AuthorizeComplete(m) ==
    /\ mut[m].pc = "awaiting"
    /\ mut[m].op = "authorize_mobile"
    /\ \E up \in BOOLEAN :
          LET session_token == authorize(mut[m].arg, up)
          IN  /\ session_token.ok \/ log < MaxLog
              /\ mut' = [mut EXCEPT ![m] = [@ EXCEPT !.pc = "done",
                                                     !.outcome = session_token,
                                                     !.response = authorize_mobile(session_token)]]
              /\ sessions' = IF session_token.ok
                             THEN sessions \cup {session_token.value} ELSE sessions
              /\ log' = IF session_token.ok THEN log ELSE log + 1
    /\ pool_handles' = pool_drop(pool_handles)
    /\ UNCHANGED <<db, req, probe>>

\* deauthorize_mobile is called: the resolver clones the pool handle, calls
\* crate::auth::deauthorize and suspends.
DeauthorizeCall(m) ==
    /\ mut[m].pc = "idle"
    /\ \E session_token \in SessionTokens :
          mut' = [mut EXCEPT ![m] = [IdleMutation EXCEPT !.pc = "awaiting",
                                                         !.op = "deauthorize_mobile",
                                                         !.arg = session_token]]
    /\ pool_handles' = pool_to_owned(pool_handles)
    /\ UNCHANGED <<db, req, probe, sessions, log>>

\* crate::auth::deauthorize answers: the resolver matches on the answer,
\* returns the payload and drops its handle.
DeauthorizeComplete(m) ==
    /\ mut[m].pc = "awaiting"
    /\ mut[m].op = "deauthorize_mobile"
    /\ \E up \in BOOLEAN :
          LET outcome == deauthorize(mut[m].arg, sessions, up)
          IN  /\ mut' = [mut EXCEPT ![m] = [@ EXCEPT !.pc = "done",
                                                     !.outcome = outcome,
                                                     !.response = deauthorize_mobile(outcome)]]
              /\ sessions' = IF outcome.ok THEN sessions \ {mut[m].arg} ELSE sessions
    /\ pool_handles' = pool_drop(pool_handles)
    /\ UNCHANGED <<db, req, probe, log>>

\* The payload is sent and the call's frame is gone.
MutationReturn(m) ==
    /\ mut[m].pc = "done"
    /\ mut' = [mut EXCEPT ![m] = IdleMutation]
    /\ UNCHANGED <<db, req, pool_handles, probe, sessions, log>>

(***************************************************************************)
(* Specifications.                                                         *)
(***************************************************************************)
IdleProbe ==
    [pc |-> "idle", tag |-> "", content |-> [f \in Fields |-> Absent], out |-> Pending]

InitRest ==
    /\ sessions = {}
    /\ mut = [m \in 1..NumMutations |-> IdleMutation]
    /\ log = 0

\* One request at a time over every store of at most MaxRecords records.
Init ==
    /\ db \in Stores(RecordPool, MaxRecords)
    /\ req = [r \in {1} |-> IdleFrame]
    /\ pool_handles = 0
    /\ probe = IdleProbe
    /\ InitRest

\* NumRequests concurrent requests; the home entrypoint holds at most
\* MaxConcRecords records, the explore entrypoint none.
InitConc ==
    /\ db \in {[k \in EntrypointKeys |-> IF k = "home" THEN s ELSE <<>>] :
                   s \in SeqUpTo(ConcPool, MaxConcRecords)}
    /\ req = [r \in 1..NumRequests |-> IdleFrame]
    /\ pool_handles = 0
    /\ probe = IdleProbe
    /\ InitRest

InitDecode ==
    /\ db = [k \in EntrypointKeys |-> <<>>]
    /\ req = [r \in {1} |-> IdleFrame]
    /\ pool_handles = 0
    /\ probe \in [pc : {"input"}, tag : Tags, content : Contents, out : {Pending}]
    /\ InitRest

\* Mutations and one query at a time over one store.
InitAuth ==
    /\ db = [k \in EntrypointKeys |-> IF k = "home" THEN <<CardPublic>> ELSE <<>>]
    /\ req = [r \in {1} |-> IdleFrame]
    /\ pool_handles = 0
    /\ probe = IdleProbe
    /\ InitRest

Next == \E r \in DOMAIN req : Call(r) \/ Complete(r) \/ Discard(r)

NextDecode == Deserialize

NextAuth ==
    \/ \E m \in DOMAIN mut :
          \/ AuthorizeCall(m) \/ AuthorizeComplete(m)
          \/ DeauthorizeCall(m) \/ DeauthorizeComplete(m)
          \/ MutationReturn(m)
    \/ Next

Spec == Init /\ [][Next]_vars

SpecConc == InitConc /\ [][Next]_vars

SpecDecode == InitDecode /\ [][NextDecode]_vars

SpecAuth == InitAuth /\ [][NextAuth]_vars

(***************************************************************************)
(* Properties.                                                             *)
(***************************************************************************)
Done(r) == req[r].pc = "done"

\* A record whose tag is a variant and whose content has that variant's fields.
WellFormed(record) ==
    /\ record.discriminator_tag \in Variants
    /\ \A f \in RequiredFields(record.discriminator_tag) : record.content[f] \in Values

\* The section a well-formed record stands for.
IsSectionOf(section, record) ==
    /\ section.id = record.id
    /\ section.component.variant = record.discriminator_tag
    /\ section.component.payload =
          [f \in RequiredFields(record.discriminator_tag) |-> record.content[f]]

\* The records of request r's key that its identity may see, in persisted order.
VisibleRecords(r) ==
    SelectSeq(db[req[r].key], LAMBDA x : x.visibility_rule = "public"
                                          \/ req[r].user = "AuthorizedUser")

Fetched(r) == Done(r) /\ req[r].key # "" /\ req[r].storage_ok

AllVisibleAndWellFormed(r) ==
    /\ Fetched(r)
    /\ VisibleRecords(r) = db[req[r].key]
    /\ \A i \in DOMAIN db[req[r].key] : WellFormed(db[req[r].key][i])

\* C1: when every persisted record of the key is visible to the requester and
\* well-formed (zero records included), the resolver succeeds with exactly one
\* section per record, in persisted order, equal records kept.
C1_PersistedOrderPreserved ==
    \A r \in DOMAIN req :
        AllVisibleAndWellFormed(r) =>
            LET records == db[req[r].key]
                resp == req[r].response
            IN  /\ resp.ok
                /\ Len(resp.value) = Len(records)
                /\ \A i \in 1..Len(records) : IsSectionOf(resp.value[i], records[i])

\* C1 witness: a resolved entrypoint holding the same record twice and another one.
C1_Witness ==
    \E r \in DOMAIN req :
        /\ AllVisibleAndWellFormed(r)
        /\ Len(db[req[r].key]) >= 3
        /\ db[req[r].key][1] = db[req[r].key][2]
        /\ db[req[r].key][1] # db[req[r].key][3]

SomeVisibleMalformed(r) ==
    /\ Fetched(r)
    /\ \E i \in DOMAIN VisibleRecords(r) : ~WellFormed(VisibleRecords(r)[i])

\* C2: if any record left after visibility filtering is malformed, at any
\* position, the resolution is the decode error of the first such record and
\* the response carries no sections.
C2_FailFast ==
    \A r \in DOMAIN req :
        SomeVisibleMalformed(r) =>
            LET vis == VisibleRecords(r)
                first == CHOOSE i \in DOMAIN vis :
                            /\ ~WellFormed(vis[i])
                            /\ \A j \in 1..(i - 1) : WellFormed(vis[j])
            IN  /\ ~req[r].resolved.ok
                /\ req[r].resolved.error.variant = "SerdeError"
                /\ req[r].resolved.error.section = vis[first].id
                /\ ~req[r].response.ok

\* C2 witness: the malformed record sits between two records that decode.
C2_Witness ==
    \E r \in DOMAIN req :
        /\ SomeVisibleMalformed(r)
        /\ Len(VisibleRecords(r)) = 3
        /\ WellFormed(VisibleRecords(r)[1])
        /\ ~WellFormed(VisibleRecords(r)[2])
        /\ WellFormed(VisibleRecords(r)[3])

Decoded == probe.pc = "decoded"

\* C3: decoding a tag outside the variant set fails with
\* UnknownComponentKind carrying the tag, whatever the content.
C3_UnknownTagRejected ==
    (Decoded /\ probe.tag \notin Variants) =>
        probe.out = Err(DecodeError("UnknownComponentKind", probe.tag, ""))

\* C3 witness: an unknown tag over content that is a complete card payload.
C3_Witness ==
    /\ Decoded
    /\ probe.tag = "__nonexistent__"
    /\ \A f \in RequiredFields("SDUICardComponent") : probe.content[f] \in Values

\* C4: for a recognized tag the outcome is the union case named by the tag,
\* holding that variant's fields of the content, or a failure; content lacking
\* a field of the tag's payload fails even if it fits a sibling variant.
C4_TagAloneDispatches ==
    (Decoded /\ probe.tag \in Variants) =>
        /\ probe.out.ok <=>
              \A f \in RequiredFields(probe.tag) : probe.content[f] \in Values
        /\ probe.out.ok =>
              /\ probe.out.value.variant = probe.tag
              /\ probe.out.value.payload =
                    [f \in RequiredFields(probe.tag) |-> probe.content[f]]

\* C4 witness: a description tag over content that is a complete card payload
\* and lacks the description's text.
C4_Witness ==
    /\ Decoded
    /\ probe.tag = "SDUIDescriptionComponent"
    /\ \A f \in RequiredFields("SDUICardComponent") : probe.content[f] \in Values
    /\ probe.content["text"] = Absent
    /\ ~probe.out.ok

\* C5: the round-trip law decode(encode(c)) = c needs an encode operation on
\* the union: for every component that decoding constructs, the union offers
\* the encoder (serde::Serialize) whose output decode would read back.
C5_EncodeProvided ==
    (Decoded /\ probe.out.ok) => "serde::Serialize" \in DerivedTraits

Ids(sections) == [i \in 1..Len(sections) |-> sections[i].id]

Restricted(r) == req[r].user \in {"AnonymousUser", "UnauthorizedUser"}

PublicRecords(r) == SelectSeq(db[req[r].key], LAMBDA x : x.visibility_rule = "public")

\* C6: for an anonymous or unauthorized identity a successful response is
\* built from exactly the public records of the key, in persisted order, and
\* the response succeeds whenever those records are well-formed.
C6_VisibilityFiltered ==
    \A r \in DOMAIN req :
        (Fetched(r) /\ Restricted(r)) =>
            /\ req[r].response.ok =>
                  /\ Ids(req[r].response.value) = Ids(PublicRecords(r))
                  /\ \A i \in 1..Len(req[r].response.value) :
                        IsSectionOf(req[r].response.value[i], PublicRecords(r)[i])
            /\ (\A i \in DOMAIN PublicRecords(r) : WellFormed(PublicRecords(r)[i]))
                  => req[r].response.ok

\* C6 witness: an anonymous request over [authorized-only, public] answered
\* with the public section alone.
C6_Witness ==
    \E r \in DOMAIN req :
        /\ Fetched(r)
        /\ req[r].user = "AnonymousUser"
        /\ Len(db[req[r].key]) = 2
        /\ db[req[r].key][1].visibility_rule = "authorized"
        /\ db[req[r].key][2].visibility_rule = "public"
        /\ req[r].response.ok
        /\ Len(req[r].response.value) = 1

\* C7: an empty key fails with InvalidKey for every identity, every store
\* and every storage outcome; the response is a field error.
C7_EmptyKeyInvalid ==
    \A r \in DOMAIN req :
        (Done(r) /\ req[r].key = "") =>
            /\ ~req[r].resolved.ok
            /\ req[r].resolved.error.variant = "LogicError"
            /\ req[r].resolved.error.kind = "InvalidKey"
            /\ ~req[r].response.ok
            /\ req[r].response.error.message.kind = "InvalidKey"

\* C7 witness: an empty key asked while the storage is down and the store
\* is not empty.
C7_Witness ==
    \E r \in DOMAIN req :
        /\ Done(r)
        /\ req[r].key = ""
        /\ ~req[r].storage_ok
        /\ db["home"] # <<>>

\* C8: the response is Ok exactly when the resolution is Ok, with the same
\* sections; every error variant of the resolution becomes a field error
\* carrying the inner error.
C8_NoErrorSwallowed ==
    \A r \in DOMAIN req :
        Done(r) =>
            /\ req[r].response.ok <=> req[r].resolved.ok
            /\ req[r].resolved.ok => req[r].response.value = req[r].resolved.value
            /\ ~req[r].resolved.ok =>
                  /\ req[r].resolved.error.variant \in
                        {"DatabaseError", "LogicError", "SerdeError"}
                  /\ ~req[r].response.ok =>
                        /\ req[r].response.error.message.kind = req[r].resolved.error.kind
                        /\ req[r].response.error.message.key = req[r].resolved.error.key

\* C8 witness: a storage failure answered.
C8_Witness ==
    \E r \in DOMAIN req :
        /\ Done(r)
        /\ ~req[r].resolved.ok
        /\ req[r].resolved.error.variant = "DatabaseError"

\* What request r yields when it runs alone over the persisted data.
SoloOutcome(r, resp) ==
    IF req[r].key = "" THEN ~resp.ok /\ resp.error.message.kind = "InvalidKey"
    ELSE IF ~req[r].storage_ok THEN ~resp.ok /\ resp.error.message.kind = "StorageError"
    ELSE IF \E i \in DOMAIN VisibleRecords(r) : ~WellFormed(VisibleRecords(r)[i])
         THEN /\ ~resp.ok
              /\ resp.error.message.kind \in
                    {"UnknownComponentKind", "MissingField", "MalformedField"}
         ELSE /\ resp.ok
              /\ Len(resp.value) = Len(VisibleRecords(r))
              /\ \A i \in 1..Len(resp.value) : IsSectionOf(resp.value[i], VisibleRecords(r)[i])

\* C9: under every interleaving, each finished request holds the response
\* it yields alone over the persisted data, and the only shared resource, the
\* pool, is held by exactly the requests that are inside a call.
C9_RequestsIndependent ==
    /\ \A r \in DOMAIN req : Done(r) => SoloOutcome(r, req[r].response)
    /\ pool_handles = Cardinality({r \in DOMAIN req : req[r].pc = "awaiting"})

\* C9 witness: one request finished with two sections while another one, for the
\* same key and another identity, is suspended at the fetch.
C9_Witness ==
    \E r1, r2 \in DOMAIN req :
        /\ Done(r1)
        /\ req[r1].response.ok
        /\ Len(req[r1].response.value) = 2
        /\ req[r2].pc = "awaiting"
        /\ req[r2].key = req[r1].key
        /\ req[r2].user # req[r1].user

Authorized(m) == mut[m].pc = "done" /\ mut[m].op = "authorize_mobile"

\* C10: authorize_mobile always answers with a payload, never a field error;
\* success holds exactly when a session token is present; an authorization
\* yields the issued token, a failure yields None.
C10_SuccessIffToken ==
    \A m \in DOMAIN mut :
        Authorized(m) =>
            /\ mut[m].response.ok
            /\ mut[m].response.value.success <=> mut[m].response.value.session_token.some
            /\ mut[m].outcome.ok =>
                  /\ mut[m].response.value.success
                  /\ mut[m].response.value.session_token = Some(mut[m].outcome.value)
            /\ ~mut[m].outcome.ok =>
                  /\ ~mut[m].response.value.success
                  /\ mut[m].response.value.session_token = None

\* C10 witness: a call that was rejected and logged while a session is active
\* and another mutation is suspended with its pool handle held.
C10_Witness ==
    \E m, n \in DOMAIN mut :
        /\ Authorized(m)
        /\ ~mut[m].outcome.ok
        /\ log > 0
        /\ sessions # {}
        /\ mut[n].pc = "awaiting"
        /\ pool_handles > 0

====
